---- MODULE Spec2Model ----
(***************************************************************************)
(* Model of dataio/deap/make_deap_dataset.py: label binning                *)
(* (LabelTransformer), window generation, the round-robin DEAPWriter, the  *)
(* shuffling DEAPWriterBuffer and the two passes of process_directory.     *)
(*                                                                         *)
(* Real numbers (label scores, breakpoints, the validation fraction) are   *)
(* exact rationals <<numerator, denominator>> with a positive denominator. *)
(***************************************************************************)
EXTENDS Integers, Sequences, FiniteSets, TLC

VARIABLES
    \* --- LabelTransformer.transform_label_channel_with_classes ----------
    cls_n,          \* class count handed to build_classes
    cls_value,      \* the label_channel argument (a rational)
    cls_outcome,    \* [kind, value]: kind "pending" before the call, then its outcome
    \* --- LabelTransformer.transform_labels -------------------------------
    num_classes,    \* 4-tuple of class counts (valence, arousal, dominance, liking)
    labels_in,      \* 4-vector of raw scores (rationals)
    transformed,    \* [kind, value]: kind "pending", then the vector transform_labels returned
    \* --- window computation of process_directory ------------------------
    total_samples_per_experiment,   \* 63 * 128 - trim_samples
    samples_per_chunk,              \* int(128 * target_seconds)
    step_samples,                   \* 128 * window_step, or NoStep when window_step is None
    windows,                        \* [kind, value]: the list mit.windowed produced
    \* --- one DEAPWriter and one DEAPWriterBuffer on top of it -----------
    dw,             \* the DEAPWriter (entered)
    wb,             \* the DEAPWriterBuffer wrapping dw
    wb_outcome,     \* outcome of the last DEAPWriterBuffer.write_example call
    wb_before,      \* the buffer as it was when that call was made
    appended,       \* history: the (data, labels) pairs the buffer accepted
    calls,          \* history: the records handed to dw.write_example, in call order
    flushes,        \* number of flush_buffer calls so far
    last_flush,     \* history: the records the last flush_buffer wrote, in order
    next_id,        \* id of the next fresh sample
    \* --- process_directory: its arguments --------------------------------
    mode,               \* "subject-dependent" or "subject-independent"
    num_subjects,       \* number of .dat files; the files are named 1..num_subjects
    num_experiments,    \* trials per file (the argument, and what each file holds)
    validation_split,   \* a rational in [0, 1]
    raw_labels,         \* the labels array of a file: raw_labels[experiment] is a 4-vector
    train_names,        \* subject-dependent: the out_names holding "train"
    test_names,         \* subject-dependent: the out_names holding "test"
    \* --- process_directory: its locals -----------------------------------
    pc,                 \* where process_directory stands
    exc,                \* the exception in flight, "none" when there is none
    file_idx,           \* next file of file_list to process
    validation_indices, \* the set np.random.choice drew
    current_sample,     \* the np.array(0) counter shared by all files
    train_writer, test_writer,                  \* DEAPWriters (subject-dependent)
    train_writer_buffer, test_writer_buffer,    \* DEAPWriterBuffers
    out_writers,        \* subject-independent: file_id -> its DEAPWriter, once written
    shape,              \* shape of the last sample written ("unset" before)
    records_available,  \* the "available" counts, once computed
    manifest,           \* what write_config wrote, once written
    \* --- process_directory: what it finds on disk -------------------------
    listing,            \* os.listdir(input_dir): the file names in the order listed
    unreadable,         \* the files pickle.load raises on
    fault               \* [dest, after]: the file at out_names[dest] takes `after`
                        \* records and raises on the next write (dest 0: none does)

binVars == <<cls_n, cls_value, cls_outcome>>
xfVars  == <<num_classes, labels_in, transformed>>
winVars == <<total_samples_per_experiment, samples_per_chunk, step_samples, windows>>
cfgVars == <<mode, num_subjects, num_experiments, validation_split, raw_labels,
             train_names, test_names>>
runVars == <<pc, exc, file_idx, validation_indices, current_sample, train_writer,
             test_writer, train_writer_buffer, test_writer_buffer, out_writers,
             shape, records_available, manifest>>
envVars == <<listing, unreadable, fault>>
wrVars  == <<dw, wb, wb_outcome, wb_before, appended, calls, flushes, last_flush, next_id>>

-----------------------------------------------------------------------------
(* Bounds *)

MaxClasses     == 16   \* largest class count tried on a single channel
ValDen         == 4    \* label scores are tried on a grid of 1/ValDen
MaxChanClasses == 3    \* largest per-channel class count in transform_labels
MaxTimeline    == 8    \* longest trimmed timeline, in samples
MaxWindow      == 3    \* longest window, in samples
MaxStep        == 4    \* largest window step, in samples
MaxDest        == 3    \* most destinations of one DEAPWriter
MaxBuffer      == 2    \* largest buffer_size of a DEAPWriterBuffer
MaxSamples     == 3    \* most samples offered to the writer and its buffer
MaxFlushes     == 1    \* most flush_buffer calls on one buffer
MaxRunTimeline == 4    \* longest trimmed timeline in a process_directory run
MaxRunWindow   == 2    \* longest window in a run
MaxRunStep     == 2    \* largest step in a run
MaxSubjects    == 2    \* most source files in a run
MaxExperiments == 2    \* most trials per file in a run
MaxTotal       == 4    \* most samples a run may produce
MaxSplitDen    == 3    \* validation_split is k/d with d up to MaxSplitDen
MaxScopeTimeline == 2  \* longest timeline of the runs with failing files
MaxFaultAfter  == 2    \* most records a failing file takes before it raises

-----------------------------------------------------------------------------
(* Rationals *)

RatLess(a, b) == a[1] * b[2] < b[1] * a[2]
RatEq(a, b)   == a[1] * b[2] = b[1] * a[2]
RatGeq(a, b)  == ~RatLess(a, b)
IntRat(k)     == <<k, 1>>

RECURSIVE SumSeq(_)
SumSeq(q) == IF q = <<>> THEN 0 ELSE Head(q) + SumSeq(Tail(q))

\* build_classes defaults: min_value=1.0, max_value=9
min_value == 1
max_value == 9

-----------------------------------------------------------------------------
(* LabelTransformer *)

\* np.linspace(min_value, max_value, n + 1): element i (0-based) is
\* min + i * (max - min) / n; the last element is max_value exactly.
Linspace(n) ==
    [i \in 1..(n + 1) |-> <<min_value * n + (i - 1) * (max_value - min_value), n>>]

\* build_classes: consecutive pairs (breaks[k], breaks[k+1]) of the linspace.
build_classes(n) ==
    LET breaks == Linspace(n)
    IN  [k \in 1..n |-> <<breaks[k], breaks[k + 1]>>]

\* The for loop of transform_label_channel_with_classes, from the idx-th
\* class on.  Yields the loop's two live variables when it ends: label_channel
\* (overwritten by the class id on a match) and max_exclusive (the upper
\* bound of the last class the loop looked at).
RECURSIVE ClassScan(_, _, _)
ClassScan(label_channel, classes, idx) ==
    LET min_inclusive == classes[idx][1]
        max_exclusive == classes[idx][2]
    IN  IF RatGeq(label_channel, min_inclusive) /\ RatLess(label_channel, max_exclusive)
        THEN [label_channel |-> IntRat(idx - 1), max_exclusive |-> max_exclusive]
        ELSE IF idx = Len(classes)
             THEN [label_channel |-> label_channel, max_exclusive |-> max_exclusive]
             ELSE ClassScan(label_channel, classes, idx + 1)

\* transform_label_channel_with_classes: the scan, then the patch for the
\* maximum, which compares whatever label_channel now holds with the
\* max_exclusive the loop left behind.  Always returns; never raises.
transform_label_channel_with_classes(label_channel, classes) ==
    LET after == ClassScan(label_channel, classes, 1)
    IN  IF RatEq(after.label_channel, after.max_exclusive)
        THEN [kind |-> "return", value |-> IntRat(Len(classes) - 1)]
        ELSE [kind |-> "return", value |-> after.label_channel]

\* LabelTransformer.__init__: one interval table per channel.
LabelTransformer(nc) ==
    [valence_classes   |-> build_classes(nc[1]),
     arousal_classes   |-> build_classes(nc[2]),
     dominance_classes |-> build_classes(nc[3]),
     liking_classes    |-> build_classes(nc[4])]

\* transform_labels: every channel is looked up in self.valence_classes.
transform_labels(lt, labels) ==
    [c \in 1..4 |->
        transform_label_channel_with_classes(labels[c], lt.valence_classes).value]

-----------------------------------------------------------------------------
(* Specification SpecClassify: one call of                                 *)
(* transform_label_channel_with_classes(v, build_classes(n)).              *)

LabelGrid == {<<j, ValDen>> : j \in 0..(10 * ValDen)}

InRange(v) == RatGeq(v, IntRat(min_value)) /\ RatGeq(IntRat(max_value), v)

Pending == [kind |-> "pending", value |-> <<>>]

IdleClassify ==
    /\ cls_n = 1
    /\ cls_value = IntRat(min_value)
    /\ cls_outcome = [kind |-> "idle", value |-> <<>>]

InitClassify ==
    /\ cls_n \in 1..MaxClasses
    /\ cls_value \in LabelGrid
    /\ cls_outcome = Pending

Classify ==
    /\ cls_outcome.kind = "pending"
    /\ cls_outcome' = transform_label_channel_with_classes(cls_value, build_classes(cls_n))
    /\ UNCHANGED <<cls_n, cls_value>>

-----------------------------------------------------------------------------
(* Specification SpecTransform: one call of transform_labels.              *)

TransformLabelValues == {IntRat(1), IntRat(5), IntRat(9)}

IdleTransform ==
    /\ num_classes = <<1, 1, 1, 1>>
    /\ labels_in = <<IntRat(1), IntRat(1), IntRat(1), IntRat(1)>>
    /\ transformed = [kind |-> "idle", value |-> <<>>]

InitTransform ==
    /\ num_classes \in [1..4 -> 1..MaxChanClasses]
    /\ labels_in \in [1..4 -> TransformLabelValues]
    /\ transformed = Pending

TransformLabels ==
    /\ transformed.kind = "pending"
    /\ transformed' = [kind  |-> "return",
                       value |-> transform_labels(LabelTransformer(num_classes), labels_in)]
    /\ UNCHANGED <<num_classes, labels_in>>

-----------------------------------------------------------------------------
(* Window computation (process_directory, lines 201-214)                   *)

NoStep  == 0 - 1   \* window_step is None
NoneIdx == 0 - 1   \* the fillvalue None of more_itertools.windowed

\* collections.deque(maxlen=n).append
DequeAppend(window, n, x) ==
    IF Len(window) < n THEN Append(window, x) ELSE Append(Tail(window), x)

RECURSIVE DequeExtend(_, _, _, _)
DequeExtend(window, n, x, times) ==
    IF times = 0 THEN window
    ELSE DequeExtend(DequeAppend(window, n, x), n, x, times - 1)

\* more_itertools.windowed(range(T), n, step=step), n >= 1, step >= 1: the
\* loop over the items from item pos on, then the two padding cases after it.
\* i counts down to the next yield; out collects the yielded windows.
RECURSIVE WindowedLoop(_, _, _, _, _, _, _)
WindowedLoop(T, n, step, pos, window, i, out) ==
    IF pos = T
    THEN IF Len(window) < n
         THEN Append(out, window \o [j \in 1..(n - Len(window)) |-> NoneIdx])
         ELSE IF 0 < i /\ i < (IF step < n THEN step ELSE n)
              THEN Append(out, DequeExtend(window, n, NoneIdx, i))
              ELSE out
    ELSE LET w2 == DequeAppend(window, n, pos)
         IN  IF i - 1 = 0
             THEN WindowedLoop(T, n, step, pos + 1, w2, step, Append(out, w2))
             ELSE WindowedLoop(T, n, step, pos + 1, w2, i - 1, out)

windowed(T, n, step) == WindowedLoop(T, n, step, 0, <<>>, n, <<>>)

\* process_directory, lines 207-212: the step is step_samples when a
\* window_step was given and samples_per_chunk otherwise.
ComputeWindowList(T, n, step) ==
    IF step # NoStep THEN windowed(T, n, step) ELSE windowed(T, n, n)

IdleWindows ==
    /\ total_samples_per_experiment = 1
    /\ samples_per_chunk = 1
    /\ step_samples = NoStep
    /\ windows = [kind |-> "idle", value |-> <<>>]

InitWindows ==
    /\ total_samples_per_experiment \in 1..MaxTimeline
    /\ samples_per_chunk \in 1..MaxWindow
    /\ step_samples \in {NoStep} \cup 1..MaxStep
    /\ windows = Pending

ComputeWindows ==
    /\ windows.kind = "pending"
    /\ windows' = [kind  |-> "return",
                   value |-> ComputeWindowList(total_samples_per_experiment,
                                               samples_per_chunk, step_samples)]
    /\ UNCHANGED <<total_samples_per_experiment, samples_per_chunk, step_samples>>

-----------------------------------------------------------------------------
(* DEAPWriter *)

\* __init__ and __enter__: one TFRecordWriter per filename (handles 1..n,
\* each with the records written to it), the cycling iterator at its start,
\* and a zero count per file.  has_shape: whether the attribute self.shape,
\* which only write_example sets, exists.  Of each TFRecordWriter the
\* model also keeps: closed, the number of close() calls it received;
\* accepts, the number of records its file still takes before write raises
\* (NoFault: any number); late_writes, the writes made to it after a close;
\* and error, the exception the last write_example raised.
NoFault == 0 - 1

DEAPWriter(n) ==
    [has_shape         |-> FALSE,
     writers           |-> [i \in 1..n |-> i],
     writer_iterator   |-> 1,
     records_processed |-> [i \in 1..n |-> 0],
     files             |-> [i \in 1..n |-> <<>>],
     closed            |-> [i \in 1..n |-> 0],
     accepts           |-> [i \in 1..n |-> NoFault],
     late_writes       |-> 0,
     error             |-> "none"]

\* __exit__ (lines 58-63): close() on every writer, in order.
\* (mutant) the loop stops one writer short
DEAPWriterExit_short(w) ==
    [w EXCEPT !.closed = [i \in 1..Len(w.writers) |->
                             IF i < Len(w.writers) THEN @[i] + 1 ELSE @[i]]]

DEAPWriterExit(w) ==
    [w EXCEPT !.closed = [i \in 1..Len(w.writers) |-> @[i] + 1]]

\* list.index: the first position holding x
ListIndex(list, x) ==
    CHOOSE i \in 1..Len(list) :
        /\ list[i] = x
        /\ \A j \in 1..(i - 1) : list[j] # x

\* serialize_example: feature "X" plus one feature per label name
serialize_example(data, labels) ==
    [X |-> data, valence |-> labels.valence, arousal |-> labels.arousal,
     dominance |-> labels.dominance, liking |-> labels.liking]

\* write_example: next(self.writer_iterator) takes the writer under the
\* cycle position and moves the position on; the record goes to that
\* writer and the count at self.writers.index(this_writer) goes up.
\* (mutant) the iterator is never advanced: every record goes to one file
write_example_stuck(w, data, labels) ==
    LET serialized  == serialize_example(data, labels)
        this_writer == w.writers[w.writer_iterator]
        writer_id   == ListIndex(w.writers, this_writer)
    IN  [w EXCEPT
            !.has_shape         = TRUE,
            !.files             = [@ EXCEPT ![this_writer] = Append(@, serialized)],
            !.records_processed = [@ EXCEPT ![writer_id] = @ + 1]]

\* When this_writer.write raises (line 80), the shape is set and the cycle
\* has moved on, but the count has not gone up.
write_example(w, data, labels) ==
    LET serialized  == serialize_example(data, labels)
        this_writer == w.writers[w.writer_iterator]
        writer_id   == ListIndex(w.writers, this_writer)
    IN  IF w.accepts[this_writer] = 0
        THEN [w EXCEPT
                !.has_shape       = TRUE,
                !.writer_iterator = IF @ = Len(w.writers) THEN 1 ELSE @ + 1,
                !.error           = "OpError"]
        ELSE [w EXCEPT
                !.has_shape         = TRUE,
                !.writer_iterator   = IF @ = Len(w.writers) THEN 1 ELSE @ + 1,
                !.files             = [@ EXCEPT ![this_writer] = Append(@, serialized)],
                !.accepts           = [@ EXCEPT ![this_writer] =
                                          IF @ = NoFault THEN @ ELSE @ - 1],
                !.late_writes       = IF w.closed[this_writer] > 0 THEN @ + 1 ELSE @,
                !.records_processed = [@ EXCEPT ![writer_id] = @ + 1]]

-----------------------------------------------------------------------------
(* DEAPWriterBuffer *)

ZeroSlot == <<>>   \* a row of np.zeros

\* __init__: two zero arrays of buffer_size rows, and collected = 0
DEAPWriterBuffer(buffer_size) ==
    [buffer_size  |-> buffer_size,
     data_buffer  |-> [i \in 1..buffer_size |-> ZeroSlot],
     label_buffer |-> [i \in 1..buffer_size |-> ZeroSlot],
     collected    |-> 0]

\* labels_np_to_dict: zip(label_names, list(np))
labels_np_to_dict(l) ==
    [valence |-> l[1], arousal |-> l[2], dominance |-> l[3], liking |-> l[4]]

\* write_example of the buffer: data_buffer[collected] = data raises
\* IndexError when collected is not a row of the array, before anything is
\* stored; otherwise both rows are stored and collected advances.
\* (mutant) the rows are appended without looking at the array's size
buffer_write_example_growing(b, data, labels) ==
    [kind   |-> "return",
     buffer |-> [b EXCEPT !.data_buffer  = SubSeq(@, 1, b.collected) \o <<data>>,
                          !.label_buffer = SubSeq(@, 1, b.collected) \o <<labels>>,
                          !.collected    = @ + 1]]

buffer_write_example(b, data, labels) ==
    IF b.collected >= Len(b.data_buffer)
    THEN [kind |-> "IndexError", buffer |-> b]
    ELSE [kind   |-> "return",
          buffer |-> [b EXCEPT !.data_buffer  = [@ EXCEPT ![b.collected + 1] = data],
                               !.label_buffer = [@ EXCEPT ![b.collected + 1] = labels],
                               !.collected    = @ + 1]]

\* The for loop of flush_buffer from row i on: rows 1..collected go to
\* the writer in order; a write_example that raises ends the loop.
RECURSIVE FlushRows(_, _, _)
FlushRows(b, w, i) ==
    IF i > b.collected \/ w.error # "none" THEN w
    ELSE FlushRows(b,
                   write_example(w, b.data_buffer[i], labels_np_to_dict(b.label_buffer[i])),
                   i + 1)

\* flush_buffer with np.random.permutation(collected) = permutation: both
\* arrays are replaced by their rows in the permuted order, then written.
\* (mutant) only the data rows are permuted; the labels stay in place
flush_buffer_unpaired(b, w, permutation) ==
    LET shuffled ==
            [b EXCEPT !.data_buffer  = [i \in 1..b.collected |-> @[permutation[i]]],
                      !.label_buffer = SubSeq(@, 1, b.collected)]
    IN  [buffer |-> shuffled, writer |-> FlushRows(shuffled, w, 1)]

flush_buffer(b, w, permutation) ==
    LET shuffled ==
            [b EXCEPT !.data_buffer  = [i \in 1..b.collected |-> @[permutation[i]]],
                      !.label_buffer = [i \in 1..b.collected |-> @[permutation[i]]]]
    IN  [buffer |-> shuffled, writer |-> FlushRows(shuffled, w, 1)]

IndexPermutations(n) ==
    {p \in [1..n -> 1..n] : \A i, j \in 1..n : p[i] = p[j] => i = j}

\* The records a flushed buffer handed to its writer, in order
FlushedRecords(b) ==
    [i \in 1..b.collected |->
        serialize_example(b.data_buffer[i], labels_np_to_dict(b.label_buffer[i]))]

-----------------------------------------------------------------------------
(* Specification SpecWriter: a DEAPWriter with n destinations, a           *)
(* DEAPWriterBuffer on top of it, and any interleaving of direct writes,   *)
(* buffered writes and flushes.                                            *)

LabelVectors == {<<0, 0, 0, 0>>, <<1, 0, 1, 0>>}

NoCall == [kind |-> "none", buffer |-> <<>>]

IdleWriter ==
    /\ dw = DEAPWriter(1)
    /\ wb = DEAPWriterBuffer(0)
    /\ wb_outcome = NoCall
    /\ wb_before = <<>>
    /\ appended = <<>>
    /\ calls = <<>>
    /\ flushes = 0 - 1
    /\ last_flush = <<>>
    /\ next_id = 0

InitWriter ==
    /\ \E n \in 1..MaxDest : dw = DEAPWriter(n)
    /\ \E buffer_size \in 0..MaxBuffer : wb = DEAPWriterBuffer(buffer_size)
    /\ wb_outcome = NoCall
    /\ wb_before = <<>>
    /\ appended = <<>>
    /\ calls = <<>>
    /\ flushes = 0
    /\ last_flush = <<>>
    /\ next_id = 1

\* DEAPWriter.write_example called directly with a fresh sample
WriterWrite ==
    /\ flushes >= 0
    /\ next_id <= MaxSamples
    /\ \E l \in LabelVectors :
          /\ dw' = write_example(dw, next_id, labels_np_to_dict(l))
          /\ calls' = Append(calls, serialize_example(next_id, labels_np_to_dict(l)))
    /\ next_id' = next_id + 1
    /\ UNCHANGED <<wb, wb_outcome, wb_before, appended, flushes, last_flush>>

\* DEAPWriterBuffer.write_example called with a fresh sample
BufferWrite ==
    /\ flushes >= 0
    /\ next_id <= MaxSamples
    /\ \E l \in LabelVectors :
          LET r == buffer_write_example(wb, next_id, l)
          IN  /\ wb_outcome' = r
              /\ wb' = r.buffer
              /\ appended' = IF r.kind = "return"
                             THEN Append(appended, <<next_id, l>>)
                             ELSE appended
    /\ wb_before' = wb
    /\ next_id' = next_id + 1
    /\ UNCHANGED <<dw, calls, flushes, last_flush>>

\* DEAPWriterBuffer.flush_buffer (what __exit__ calls)
Flush ==
    /\ flushes >= 0
    /\ flushes < MaxFlushes
    /\ \E permutation \in IndexPermutations(wb.collected) :
          LET r == flush_buffer(wb, dw, permutation)
          IN  /\ wb' = r.buffer
              /\ dw' = r.writer
              /\ last_flush' = FlushedRecords(r.buffer)
              /\ calls' = calls \o FlushedRecords(r.buffer)
    /\ flushes' = flushes + 1
    /\ UNCHANGED <<wb_outcome, wb_before, appended, next_id>>

-----------------------------------------------------------------------------
(* process_directory *)

\* int(x) for a rational x >= 0
IntTrunc(r) == r[1] \div r[2]

\* num_classes default of process_directory
DefaultClasses == <<2, 2, 2, 2>>

HasNone(window) == \E j \in 1..Len(window) : window[j] = NoneIdx

\* split_with_windows: data[w, :] for every window; an index holding None
\* is no integer index, which numpy answers with IndexError.
split_with_windows(file, experiment, target_windows) ==
    IF \E w \in 1..Len(target_windows) : HasNone(target_windows[w])
    THEN [kind |-> "IndexError", value |-> <<>>]
    ELSE [kind  |-> "return",
          value |-> [w \in 1..Len(target_windows) |->
                        [file |-> file, trial |-> experiment, rows |-> target_windows[w]]]]

\* The label vector as stored in an integer array or an Int64List
IntLabels(v) == [c \in 1..4 |-> IntTrunc(v[c])]

\* Lines 501-508 for one trial, from sample i on: a sample goes to the
\* test writer when the counter is in validation_indices, else to the train
\* writer, and the counter advances.  st holds train, test (buffers),
\* current_sample and exc; a failed write_example ends the loop.
RECURSIVE RouteSamples(_, _, _, _, _)
RouteSamples(st, samples, transformed_labels, vi, i) ==
    IF i > Len(samples) \/ st.exc # "none" THEN st
    ELSE LET to_test == st.current_sample \in vi
             r == IF to_test
                  THEN buffer_write_example(st.test, samples[i], transformed_labels)
                  ELSE buffer_write_example(st.train, samples[i], transformed_labels)
         IN  IF r.kind # "return"
             THEN [st EXCEPT !.exc = r.kind]
             ELSE RouteSamples(
                     [st EXCEPT !.test  = IF to_test THEN r.buffer ELSE @,
                                !.train = IF to_test THEN @ ELSE r.buffer,
                                !.current_sample = @ + 1],
                     samples, transformed_labels, vi, i + 1)

\* The experiment loop of process_file_subject_dependent (lines 473-508),
\* from trial experiment on.
RECURSIVE DependentTrials(_, _, _, _, _, _, _)
DependentTrials(st, file, experiment, n_exp, file_labels, target_windows, vi) ==
    IF experiment > n_exp \/ st.exc # "none" THEN st
    ELSE LET transformed_labels ==
                 IntLabels(transform_labels(LabelTransformer(DefaultClasses),
                                            file_labels[experiment]))
             split_experiment_data == split_with_windows(file, experiment, target_windows)
         IN  IF split_experiment_data.kind # "return"
             THEN [st EXCEPT !.exc = split_experiment_data.kind]
             ELSE DependentTrials(
                     RouteSamples(st, split_experiment_data.value, transformed_labels, vi, 1),
                     file, experiment + 1, n_exp, file_labels, target_windows, vi)

\* unpickle: pickle.load raises on a file that holds no pickle
unpickle(file) ==
    IF file \in unreadable THEN [kind |-> "UnpicklingError"] ELSE [kind |-> "return"]

\* (mutant) every file starts counting at 0 again
process_file_subject_dependent_restart(st, file, n_exp, file_labels, target_windows, vi) ==
    IF unpickle(file).kind # "return" THEN [st EXCEPT !.exc = unpickle(file).kind]
    ELSE DependentTrials([st EXCEPT !.current_sample = 0],
                         file, 1, n_exp, file_labels, target_windows, vi)

\* process_file_subject_dependent: unpickle first; current_sample is the
\* caller's numpy array, advanced in place, so st.current_sample carries
\* over to the next file.
process_file_subject_dependent(st, file, n_exp, file_labels, target_windows, vi) ==
    IF unpickle(file).kind # "return" THEN [st EXCEPT !.exc = unpickle(file).kind]
    ELSE DependentTrials(st, file, 1, n_exp, file_labels, target_windows, vi)

\* The experiment loop of process_file, method "own" (lines 379-394), from
\* trial experiment on.  data_order is what np.random.shuffle(data) left:
\* row experiment of data holds trial data_order[experiment]; labels was not
\* shuffled.  chunk_order[experiment] is what random.shuffle made of the
\* trial's chunks.  np.split raises ValueError unless the trial's rows divide
\* evenly into target_splits sections.  A write_example that raises ends
\* the loops.
RECURSIVE IndependentTrials(_, _, _, _, _, _, _, _)
IndependentTrials(st, file, experiment, n_exp, file_labels, T, target_splits, orders) ==
    IF experiment > n_exp \/ st.exc # "none" THEN st
    ELSE LET transformed_labels ==
                 labels_np_to_dict(
                     IntLabels(transform_labels(LabelTransformer(DefaultClasses),
                                                file_labels[experiment])))
             rows == T \div target_splits
             RECURSIVE WriteChunks(_, _)
             WriteChunks(w, j) ==
                 IF j > target_splits \/ w.error # "none" THEN w
                 ELSE WriteChunks(
                         write_example(w,
                             [file |-> file,
                              trial |-> orders.data_order[experiment],
                              rows |-> [r \in 1..rows |->
                                  (orders.chunk_order[experiment][j] - 1) * rows + r - 1]],
                             transformed_labels),
                         j + 1)
             written == WriteChunks(st.writer, 1)
         IN  IF T % target_splits # 0
             THEN [st EXCEPT !.exc = "ValueError"]
             ELSE IndependentTrials(
                     [st EXCEPT !.writer = written, !.shape = rows, !.exc = written.error],
                     file, experiment + 1, n_exp, file_labels, T, target_splits, orders)

\* process_file with method "own": unpickle first
process_file(st, file, n_exp, file_labels, T, target_splits, orders) ==
    IF unpickle(file).kind # "return" THEN [st EXCEPT !.exc = unpickle(file).kind]
    ELSE IndependentTrials(st, file, 1, n_exp, file_labels, T, target_splits, orders)

\* Line 220: int(total_number_available * validation_split)
NumValidation(total, split) == IntTrunc(<<total * split[1], split[2]>>)

\* Python's round(): to the nearest integer, halves to the even one
PyRound(r) ==
    LET fl  == r[1] \div r[2]
        rem == r[1] % r[2]
    IN  IF 2 * rem < r[2] THEN fl
        ELSE IF 2 * rem > r[2] THEN fl + 1
        ELSE IF fl % 2 = 0 THEN fl ELSE fl + 1

\* Line 263: round(validation_split * len(file_list))
NumTestFiles(split, n_files) == PyRound(<<split[1] * n_files, split[2]>>)

\* (mutant) the validation count is not taken off the training count
RecordsAvailableDependent_whole(total, num_validation) ==
    [train |-> total, test |-> num_validation, total |-> total]

\* Lines 256-258
RecordsAvailableDependent(total, num_validation) ==
    [train |-> total - num_validation, test |-> num_validation, total |-> total]

\* Lines 289-291
RecordsAvailableIndependent(available_per_file, num_train_files, num_test_files) ==
    [train |-> available_per_file * num_train_files,
     test  |-> available_per_file * num_test_files,
     total |-> available_per_file * (num_test_files + num_train_files)]

Unset == [kind |-> "unset"]

Coprime(k, d) == \A g \in 2..d : ~(k % g = 0 /\ d % g = 0)
Splits == {<<k, d>> : k \in 0..MaxSplitDen, d \in 1..MaxSplitDen} \cap
          {q \in (0..MaxSplitDen) \X (1..MaxSplitDen) : q[1] <= q[2] /\ Coprime(q[1], q[2])}

\* The label arrays tried: every trial rated 1.0 on all four channels, or the
\* trials rated 1.0 and 9.0 in turn.
LabelArrays(n_exp) ==
    {[e \in 1..n_exp |-> [c \in 1..4 |-> IntRat(min_value)]],
     [e \in 1..n_exp |-> [c \in 1..4 |->
         IF e % 2 = 1 THEN IntRat(min_value) ELSE IntRat(max_value)]]}

\* out_names of the subject-dependent run, as __main__ builds them (line
\* 552-554): one name holding "train", one holding "test".
DependentOutNames == <<"subject-dependent_train", "subject-dependent_test">>

NumWindows == Len(ComputeWindowList(total_samples_per_experiment,
                                    samples_per_chunk, step_samples))

\* list.sort() (line 261) on a list of distinct names: position i holds
\* the name with i - 1 names below it.
\* (mutant) the list is left as listed
SortedList_asListed(list) == list

SortedList(list) ==
    [i \in 1..Len(list) |->
        CHOOSE x \in {list[j] : j \in 1..Len(list)} :
            Cardinality({j \in 1..Len(list) : list[j] < x}) = i - 1]

\* file_list as the loops read it: the subject-independent branch sorts it
\* before its first use, the subject-dependent branch takes it as listed.
file_list == IF mode = "subject-independent" THEN SortedList(listing) ELSE listing

\* A fresh DEAPWriter([out_names[dest]]), entered; the file behind it is
\* the one of `fault` when dest says so.
EnterWriter(dest) ==
    [DEAPWriter(1) EXCEPT !.accepts = [i \in 1..1 |->
                              IF fault.dest = dest THEN fault.after ELSE NoFault]]

NoFaults == [dest |-> 0, after |-> 0]

IdleRun ==
    /\ mode = "none"
    /\ num_subjects = 0
    /\ num_experiments = 0
    /\ validation_split = <<0, 1>>
    /\ raw_labels = <<>>
    /\ train_names = <<>>
    /\ test_names = <<>>
    /\ pc = "idle"
    /\ exc = "none"
    /\ file_idx = 0
    /\ validation_indices = {}
    /\ current_sample = 0
    /\ train_writer = Unset
    /\ test_writer = Unset
    /\ train_writer_buffer = Unset
    /\ test_writer_buffer = Unset
    /\ out_writers = <<>>
    /\ shape = Unset
    /\ records_available = Unset
    /\ manifest = Unset
    /\ listing = <<>>
    /\ unreadable = {}
    /\ fault = NoFaults

\* The locals of process_directory before its first statement
InitLocals ==
    /\ train_names = <<>>
    /\ test_names = <<>>
    /\ windows = Pending
    /\ pc = "Init"
    /\ exc = "none"
    /\ file_idx = 1
    /\ validation_indices = {}
    /\ current_sample = 0
    /\ train_writer = Unset
    /\ test_writer = Unset
    /\ train_writer_buffer = Unset
    /\ test_writer_buffer = Unset
    /\ out_writers = <<>>
    /\ shape = Unset
    /\ records_available = Unset
    /\ manifest = Unset

\* Runs on readable files and files that take every record.  The files of
\* the subject-dependent run carry the same labels, so they are named in the
\* order listed; the subject-independent run gets every listing order.
InitRun ==
    /\ mode \in {"subject-dependent", "subject-independent"}
    /\ num_subjects \in 1..MaxSubjects
    /\ num_experiments \in 1..MaxExperiments
    /\ validation_split \in Splits
    /\ raw_labels \in LabelArrays(num_experiments)
    /\ total_samples_per_experiment \in 1..MaxRunTimeline
    /\ samples_per_chunk \in 1..MaxRunWindow
    /\ step_samples \in {NoStep} \cup 1..MaxRunStep
    /\ num_subjects * num_experiments * NumWindows <= MaxTotal
    /\ listing \in IF mode = "subject-independent"
                   THEN {[i \in 1..num_subjects |-> p[i]] :
                            p \in IndexPermutations(num_subjects)}
                   ELSE {[i \in 1..num_subjects |-> i]}
    /\ unreadable = {}
    /\ fault = NoFaults
    /\ InitLocals

\* Runs in which files may be unreadable and one output file may stop
\* taking records: windows of one sample, every trial rated 1.0.
InitScope ==
    /\ mode \in {"subject-dependent", "subject-independent"}
    /\ num_subjects \in 1..MaxSubjects
    /\ num_experiments \in 1..MaxExperiments
    /\ validation_split \in Splits
    /\ raw_labels = [e \in 1..num_experiments |-> [c \in 1..4 |-> IntRat(min_value)]]
    /\ total_samples_per_experiment \in 1..MaxScopeTimeline
    /\ samples_per_chunk = 1
    /\ step_samples = NoStep
    /\ num_subjects * num_experiments * NumWindows <= MaxTotal
    /\ listing = [i \in 1..num_subjects |-> i]
    /\ unreadable \in SUBSET (1..num_subjects)
    /\ fault \in [dest : 0..(IF mode = "subject-dependent" THEN 2 ELSE num_subjects),
                  after : 0..MaxFaultAfter]
    /\ fault.dest = 0 => fault.after = 0
    /\ InitLocals

\* Lines 199-242, subject-dependent: the windows, the counts, the drawn
\* validation indices, the two writers entered and their buffers built.
SetupSubjectDependent ==
    /\ pc = "Init"
    /\ mode = "subject-dependent"
    /\ LET w == ComputeWindowList(total_samples_per_experiment,
                                  samples_per_chunk, step_samples)
           num_samples_per_experiment == Len(w)
           total_number_available ==
               num_subjects * num_experiments * num_samples_per_experiment
           num_validation == NumValidation(total_number_available, validation_split)
           num_training == total_number_available - num_validation
       IN  /\ windows' = [kind |-> "return", value |-> w]
           /\ train_names' = SubSeq(DependentOutNames, 1, 1)
           /\ test_names' = SubSeq(DependentOutNames, 2, 2)
           /\ validation_indices' \in
                 {vi \in SUBSET (0..(total_number_available - 1)) :
                     Cardinality(vi) = num_validation}
           /\ train_writer' = EnterWriter(1)
           /\ test_writer' = EnterWriter(2)
           /\ train_writer_buffer' = DEAPWriterBuffer(num_training)
           /\ test_writer_buffer' = DEAPWriterBuffer(num_validation)
    /\ current_sample' = 0
    /\ pc' = "SubjectDependentPass"
    /\ UNCHANGED <<exc, file_idx, out_writers, shape, records_available, manifest>>
    /\ UNCHANGED <<total_samples_per_experiment, samples_per_chunk, step_samples>>
    /\ UNCHANGED <<mode, num_subjects, num_experiments, validation_split, raw_labels>>

\* One turn of the loop of lines 243-254: one file through
\* process_file_subject_dependent.  An exception leaves the loop.
ProcessFileSubjectDependent ==
    /\ pc = "SubjectDependentPass"
    /\ LET st == process_file_subject_dependent(
                    [train |-> train_writer_buffer, test |-> test_writer_buffer,
                     current_sample |-> current_sample, exc |-> "none"],
                    file_list[file_idx], num_experiments, raw_labels, windows.value, validation_indices)
       IN  /\ train_writer_buffer' = st.train
           /\ test_writer_buffer' = st.test
           /\ current_sample' = st.current_sample
           /\ exc' = st.exc
           /\ pc' = IF st.exc # "none" \/ file_idx = num_subjects
                    THEN "ExitTestBuffer" ELSE "SubjectDependentPass"
    /\ file_idx' = file_idx + 1
    /\ UNCHANGED <<validation_indices, train_writer, test_writer, out_writers, shape,
                   records_available, manifest>>
    /\ UNCHANGED winVars
    /\ UNCHANGED cfgVars

\* Leaving the inner with (line 235-242), last entered first:
\* test_writer_buffer.__exit__ flushes into test_writer, whether or not an
\* exception is in flight; one raised by the flush takes its place.
ExitTestBuffer ==
    /\ pc = "ExitTestBuffer"
    /\ \E permutation \in IndexPermutations(test_writer_buffer.collected) :
          LET r == flush_buffer(test_writer_buffer, test_writer, permutation)
          IN  /\ test_writer_buffer' = r.buffer
              /\ test_writer' = r.writer
              /\ exc' = IF r.writer.error # "none" THEN r.writer.error ELSE exc
    /\ pc' = "ExitTrainBuffer"
    /\ UNCHANGED <<file_idx, validation_indices, current_sample, train_writer,
                   train_writer_buffer, out_writers, shape, records_available, manifest>>
    /\ UNCHANGED winVars
    /\ UNCHANGED cfgVars

\* train_writer_buffer.__exit__ flushes into train_writer, in the same way.
ExitTrainBuffer ==
    /\ pc = "ExitTrainBuffer"
    /\ \E permutation \in IndexPermutations(train_writer_buffer.collected) :
          LET r == flush_buffer(train_writer_buffer, train_writer, permutation)
          IN  /\ train_writer_buffer' = r.buffer
              /\ train_writer' = r.writer
              /\ exc' = IF r.writer.error # "none" THEN r.writer.error ELSE exc
    /\ pc' = IF exc' = "none" THEN "RecordAvailable" ELSE "ExitWriters"
    /\ UNCHANGED <<file_idx, validation_indices, current_sample, test_writer,
                   test_writer_buffer, out_writers, shape, records_available, manifest>>
    /\ UNCHANGED winVars
    /\ UNCHANGED cfgVars

\* Lines 255-258: train_writer.shape exists only once train_writer wrote a
\* record (write_example sets it); reading it before is an AttributeError.
RecordAvailable ==
    /\ pc = "RecordAvailable"
    /\ LET total_number_available == num_subjects * num_experiments * Len(windows.value)
           num_validation == NumValidation(total_number_available, validation_split)
       IN  IF ~train_writer.has_shape
           THEN /\ exc' = "AttributeError"
                /\ UNCHANGED <<shape, records_available>>
           ELSE /\ shape' = [kind |-> "set", value |-> samples_per_chunk]
                /\ records_available' =
                      RecordsAvailableDependent(total_number_available, num_validation)
                /\ UNCHANGED exc
    /\ pc' = "ExitWriters"
    /\ UNCHANGED <<file_idx, validation_indices, current_sample, train_writer, test_writer,
                   train_writer_buffer, test_writer_buffer, out_writers, manifest>>
    /\ UNCHANGED winVars
    /\ UNCHANGED cfgVars

\* Leaving the outer with (line 234): test_writer.__exit__, then
\* train_writer.__exit__, close their files; an exception in flight then
\* leaves process_directory.
ExitWriters ==
    /\ pc = "ExitWriters"
    /\ test_writer' = DEAPWriterExit(test_writer)
    /\ train_writer' = DEAPWriterExit(train_writer)
    /\ pc' = IF exc = "none" THEN "WritingManifest" ELSE "Failed"
    /\ UNCHANGED <<exc, file_idx, validation_indices, current_sample,
                   train_writer_buffer, test_writer_buffer, out_writers,
                   shape, records_available, manifest>>
    /\ UNCHANGED winVars
    /\ UNCHANGED cfgVars

\* The out_names of the subject-independent run, as __main__ builds them
\* (lines 556-559): one per subject, in file order; here the subject's number.
OutNames == [i \in 1..num_subjects |-> i]

\* Lines 265-267
IndependentTestNames ==
    LET num_test_files == NumTestFiles(validation_split, num_subjects)
    IN  SubSeq(OutNames, 1, num_test_files)

IndependentTrainNames ==
    LET InTest(x) == \E i \in 1..Len(IndependentTestNames) : IndependentTestNames[i] = x
        NotInTest(x) == ~InTest(x)
    IN  SelectSeq(OutNames, NotInTest)

\* Lines 199-214 and 261-267, subject-independent: the windows, the sorted
\* file list and the two lists of names.
SetupSubjectIndependent ==
    /\ pc = "Init"
    /\ mode = "subject-independent"
    /\ windows' = [kind  |-> "return",
                   value |-> ComputeWindowList(total_samples_per_experiment,
                                               samples_per_chunk, step_samples)]
    /\ test_names' = IndependentTestNames
    /\ train_names' = IndependentTrainNames
    /\ pc' = "SubjectIndependentPass"
    /\ UNCHANGED <<exc, file_idx, validation_indices, current_sample, train_writer,
                   test_writer, train_writer_buffer, test_writer_buffer, out_writers,
                   shape, records_available, manifest>>
    /\ UNCHANGED <<total_samples_per_experiment, samples_per_chunk, step_samples>>
    /\ UNCHANGED <<mode, num_subjects, num_experiments, validation_split, raw_labels>>

\* One turn of the loop of lines 268-287: a DEAPWriter on out_names[file_id]
\* is entered, process_file writes the records of file_list[file_id], shape
\* is read, and the writer's __exit__ closes the file whether or not
\* process_file raised.
ProcessFile ==
    /\ pc = "SubjectIndependentPass"
    /\ \E data_order \in IndexPermutations(num_experiments) :
       \E chunk_order \in [1..num_experiments -> IndexPermutations(Len(windows.value))] :
          LET st == process_file(
                       [writer |-> EnterWriter(file_idx), shape |-> 0, exc |-> "none"],
                       file_list[file_idx], num_experiments, raw_labels,
                       total_samples_per_experiment, Len(windows.value),
                       [data_order |-> data_order, chunk_order |-> chunk_order])
          IN  /\ out_writers' = Append(out_writers, DEAPWriterExit(st.writer))
              /\ exc' = st.exc
              /\ shape' = IF st.exc = "none"
                          THEN [kind |-> "set", value |-> st.shape] ELSE shape
              /\ pc' = IF st.exc # "none" THEN "Failed"
                       ELSE IF file_idx = num_subjects THEN "RecordAvailableIndependent"
                       ELSE "SubjectIndependentPass"
    /\ file_idx' = file_idx + 1
    /\ UNCHANGED <<validation_indices, current_sample, train_writer, test_writer,
                   train_writer_buffer, test_writer_buffer, records_available, manifest>>
    /\ UNCHANGED winVars
    /\ UNCHANGED cfgVars

\* Lines 289-291
RecordAvailableIndependent ==
    /\ pc = "RecordAvailableIndependent"
    /\ LET available_per_file == Len(windows.value) * num_experiments
           num_test_files == NumTestFiles(validation_split, num_subjects)
           num_train_files == num_subjects - num_test_files
       IN  records_available' =
              RecordsAvailableIndependent(available_per_file, num_train_files, num_test_files)
    /\ pc' = "WritingManifest"
    /\ UNCHANGED <<exc, file_idx, validation_indices, current_sample, train_writer,
                   test_writer, train_writer_buffer, test_writer_buffer, out_writers,
                   shape, manifest>>
    /\ UNCHANGED winVars
    /\ UNCHANGED cfgVars

\* Lines 293-307: file_dict and write_config
WriteManifest ==
    /\ pc = "WritingManifest"
    /\ manifest' =
          [meta  |-> [timestep |-> samples_per_chunk, mode |-> mode,
                      num_classes |-> DefaultClasses],
           shape |-> shape.value,
           files |-> [train |-> train_names,
                      test  |-> test_names,
                      validation_split |-> validation_split,
                      available |-> records_available]]
    /\ pc' = "Done"
    /\ UNCHANGED <<exc, file_idx, validation_indices, current_sample, train_writer,
                   test_writer, train_writer_buffer, test_writer_buffer, out_writers,
                   shape, records_available>>
    /\ UNCHANGED winVars
    /\ UNCHANGED cfgVars

-----------------------------------------------------------------------------
(* Specifications *)

vars == <<binVars, xfVars, winVars, wrVars, cfgVars, runVars, envVars>>

NextClassify == Classify /\ UNCHANGED <<xfVars, winVars, wrVars, cfgVars, runVars, envVars>>
StartClassify == InitClassify /\ IdleTransform /\ IdleWindows /\ IdleWriter /\ IdleRun
SpecClassify == StartClassify /\ [][NextClassify]_vars

NextTransform == TransformLabels /\ UNCHANGED <<binVars, winVars, wrVars, cfgVars, runVars, envVars>>
StartTransform == IdleClassify /\ InitTransform /\ IdleWindows /\ IdleWriter /\ IdleRun
SpecTransform == StartTransform /\ [][NextTransform]_vars

NextWindows == ComputeWindows /\ UNCHANGED <<binVars, xfVars, wrVars, cfgVars, runVars, envVars>>
StartWindows == IdleClassify /\ IdleTransform /\ InitWindows /\ IdleWriter /\ IdleRun
SpecWindows == StartWindows /\ [][NextWindows]_vars

NextWriter ==
    \/ WriterWrite /\ UNCHANGED <<binVars, xfVars, winVars, cfgVars, runVars, envVars>>
    \/ BufferWrite /\ UNCHANGED <<binVars, xfVars, winVars, cfgVars, runVars, envVars>>
    \/ Flush /\ UNCHANGED <<binVars, xfVars, winVars, cfgVars, runVars, envVars>>
StartWriter == IdleClassify /\ IdleTransform /\ IdleWindows /\ InitWriter /\ IdleRun
SpecWriter == StartWriter /\ [][NextWriter]_vars

NextRun ==
    \/ SetupSubjectDependent /\ UNCHANGED <<binVars, xfVars, wrVars, envVars>>
    \/ ProcessFileSubjectDependent /\ UNCHANGED <<binVars, xfVars, wrVars, envVars>>
    \/ ExitTestBuffer /\ UNCHANGED <<binVars, xfVars, wrVars, envVars>>
    \/ ExitTrainBuffer /\ UNCHANGED <<binVars, xfVars, wrVars, envVars>>
    \/ RecordAvailable /\ UNCHANGED <<binVars, xfVars, wrVars, envVars>>
    \/ ExitWriters /\ UNCHANGED <<binVars, xfVars, wrVars, envVars>>
    \/ SetupSubjectIndependent /\ UNCHANGED <<binVars, xfVars, wrVars, envVars>>
    \/ ProcessFile /\ UNCHANGED <<binVars, xfVars, wrVars, envVars>>
    \/ RecordAvailableIndependent /\ UNCHANGED <<binVars, xfVars, wrVars, envVars>>
    \/ WriteManifest /\ UNCHANGED <<binVars, xfVars, wrVars, envVars>>
StartRun == IdleClassify /\ IdleTransform /\ IdleWriter /\ InitRun
SpecRun == StartRun /\ [][NextRun]_vars

StartScope == IdleClassify /\ IdleTransform /\ IdleWriter /\ InitScope
SpecScope == StartScope /\ [][NextRun]_vars

-----------------------------------------------------------------------------
(* Claims *)

\* The id of the equal-width interval [low_k, high_k) of [min_value, max_value]
\* holding v, and n - 1 for v = max_value (v in range).
IntervalOf(v, n) ==
    IF RatEq(v, IntRat(max_value)) THEN n - 1
    ELSE CHOOSE k \in 0..(n - 1) :
            /\ RatGeq(v, <<min_value * n + k * (max_value - min_value), n>>)
            /\ RatLess(v, <<min_value * n + (k + 1) * (max_value - min_value), n>>)

\* C1: for every class count n >= 1 and every v in [1.0, 9.0], classifying v
\* against build_classes(n) returns the id of the interval holding v, and
\* n - 1 for v = 9.0.
C1_BinningTotality ==
    (cls_outcome.kind = "return" /\ InRange(cls_value))
        => /\ cls_outcome.value = IntRat(IntervalOf(cls_value, cls_n))
           /\ RatGeq(cls_outcome.value, IntRat(0))
           /\ RatLess(cls_outcome.value, IntRat(cls_n))

StepUsed == IF step_samples = NoStep THEN samples_per_chunk ELSE step_samples

FittingFrames ==
    LET T == total_samples_per_experiment
        n == samples_per_chunk
        count == IF T < n THEN 0 ELSE ((T - n) \div StepUsed) + 1
    IN  [k \in 1..count |-> [j \in 1..n |-> (k - 1) * StepUsed + (j - 1)]]

\* C3: the window list is exactly the frames [k*step, k*step + window_length)
\* that fit entirely inside [0, timeline_length); a shorter trailing
\* remainder is dropped, never padded; and the count satisfies
\* (count-1)*step <= timeline_length - window_length < count*step.
C3_WindowsAreFittingFrames ==
    windows.kind = "return"
        => /\ windows.value = FittingFrames
           /\ \A w \in 1..Len(windows.value) :
                 \A j \in 1..samples_per_chunk :
                    /\ windows.value[w][j] >= 0
                    /\ windows.value[w][j] < total_samples_per_experiment
           /\ (Len(windows.value) - 1) * StepUsed
                 <= total_samples_per_experiment - samples_per_chunk
           /\ total_samples_per_experiment - samples_per_chunk
                 < Len(windows.value) * StepUsed

CallsTo(d, n, k) == {i \in 0..(k - 1) : i % n = d - 1}

\* C4: the i-th write_example call (0-based) of a writer with n destinations
\* appended its record to destination i mod n; every per-destination count is
\* floor(k/n) or ceil(k/n) and the counts sum to the number k of calls.
C4_RoundRobin ==
    flushes >= 0 =>
        LET n == Len(dw.writers)
            k == Len(calls)
        IN  /\ \A d \in 1..n :
                  /\ Len(dw.files[d]) = Cardinality(CallsTo(d, n, k))
                  /\ \A j \in 1..Len(dw.files[d]) :
                        dw.files[d][j] = calls[(j - 1) * n + d]
                  /\ dw.records_processed[d] = Len(dw.files[d])
                  /\ dw.records_processed[d] \in {k \div n, (k + n - 1) \div n}
            /\ SumSeq(dw.records_processed) = k

C4_Witness ==
    /\ flushes >= 0
    /\ Len(dw.writers) = 2
    /\ Len(calls) = 3
    /\ dw.records_processed = <<2, 1>>

\* C9: collected never exceeds buffer_size, and a write_example call made
\* with collected = buffer_size fails and leaves the buffer as it was.
C9_BufferNeverOverflows ==
    flushes >= 0 =>
        /\ wb.collected <= wb.buffer_size
        /\ (wb_outcome.kind # "none" /\ wb_before.collected = wb_before.buffer_size)
              => /\ wb_outcome.kind = "IndexError"
                 /\ wb_outcome.buffer = wb_before

C9_Witness ==
    /\ wb_outcome.kind = "IndexError"
    /\ wb_before.buffer_size = 2
    /\ wb_before.collected = 2
    /\ flushes = 0

\* C10: flush_buffer after m appends writes exactly m records, each appended
\* sample once and with the label vector it was appended with.
C10_PairedShuffle ==
    flushes >= 1 =>
        /\ Len(last_flush) = Len(appended)
        /\ \A i \in 1..Len(appended) :
              /\ Cardinality({j \in 1..Len(last_flush) :
                                 last_flush[j].X = appended[i][1]}) = 1
              /\ \A j \in 1..Len(last_flush) :
                    last_flush[j].X = appended[i][1]
                       => last_flush[j] =
                             serialize_example(appended[i][1],
                                               labels_np_to_dict(appended[i][2]))

C10_Witness ==
    /\ flushes = 1
    /\ Len(appended) = 2
    /\ appended[1][2] # appended[2][2]
    /\ Len(last_flush) = 2
    /\ last_flush[1].X = appended[2][1]
    /\ last_flush[2].X = appended[1][1]

\* The samples a buffer holds
Rows(b) == {b.data_buffer[i] : i \in 1..b.collected}

TotalAvailable == num_subjects * num_experiments * Len(windows.value)

EmittedSoFar ==
    {[file |-> file_list[f], trial |-> e, rows |-> windows.value[w]] :
        f \in 1..(file_idx - 1), e \in 1..num_experiments, w \in 1..Len(windows.value)}

\* The routing part of C2: one count per emitted sample, no reset between
\* files, every emitted sample in exactly one of the two buffers.
C2_Routing ==
    /\ current_sample = (file_idx - 1) * num_experiments * Len(windows.value)
    /\ test_writer_buffer.collected + train_writer_buffer.collected = current_sample
    /\ test_writer_buffer.collected =
          Cardinality({i \in validation_indices : i < current_sample})
    /\ Rows(test_writer_buffer) \cap Rows(train_writer_buffer) = {}
    /\ Rows(test_writer_buffer) \cup Rows(train_writer_buffer) = EmittedSoFar
    /\ Cardinality(EmittedSoFar) = current_sample

\* C2 (as amended): in subject-dependent mode the counter advances once per
\* emitted sample and is never reset between files, every emitted sample is in
\* exactly one of the two buffers, and after the pass over all files the
\* validation buffer holds exactly int(total * validation_split) samples, the
\* product cut to an integer, and the training buffer the other ones.
C2_SplitExactTruncated ==
    (mode = "subject-dependent" /\ exc = "none"
        /\ pc \in {"SubjectDependentPass", "ExitTestBuffer"})
    => /\ C2_Routing
       /\ pc = "ExitTestBuffer"
            => /\ current_sample = TotalAvailable
               /\ test_writer_buffer.collected =
                     (TotalAvailable * validation_split[1]) \div validation_split[2]
               /\ train_writer_buffer.collected =
                     TotalAvailable - test_writer_buffer.collected

C2_Witness ==
    /\ mode = "subject-dependent"
    /\ pc = "ExitTestBuffer"
    /\ exc = "none"
    /\ num_subjects = 2
    /\ validation_split = <<1, 3>>
    /\ test_writer_buffer.collected = 1
    /\ train_writer_buffer.collected = 3

\* C2 (as claimed): after the pass over all files the number of samples
\* routed to validation is exactly round(total * validation_split).
C2_SplitExactRound ==
    (mode = "subject-dependent" /\ exc = "none" /\ pc = "ExitTestBuffer")
    => /\ C2_Routing
       /\ test_writer_buffer.collected =
             PyRound(<<TotalAvailable * validation_split[1], validation_split[2]>>)
       /\ train_writer_buffer.collected = TotalAvailable - test_writer_buffer.collected

FileRecords(w) == UNION {{w.files[d][j] : j \in 1..Len(w.files[d])} : d \in 1..Len(w.files)}

PersistedRecords ==
    IF mode = "subject-dependent"
    THEN IF pc = "Init" THEN {}
         ELSE FileRecords(train_writer) \cup FileRecords(test_writer)
    ELSE UNION {FileRecords(out_writers[i]) : i \in 1..Len(out_writers)}

BinnedLabelsOf(trial) ==
    labels_np_to_dict(
        IntLabels(transform_labels(LabelTransformer(DefaultClasses), raw_labels[trial])))

\* C5: every record persisted by either pass carries the binned label vector
\* of the trial its data was taken from.
C5_RecordCarriesOwnTrialLabels ==
    pc # "idle" =>
        \A r \in PersistedRecords :
            r = serialize_example(r.X, BinnedLabelsOf(r.X.trial))

NameIn(x, names) == \E i \in 1..Len(names) : names[i] = x

RecordsWritten(names) ==
    IF mode = "subject-dependent"
    THEN (IF names = train_names THEN SumSeq([d \in 1..Len(train_writer.files) |->
                                                Len(train_writer.files[d])])
          ELSE SumSeq([d \in 1..Len(test_writer.files) |-> Len(test_writer.files[d])]))
    ELSE SumSeq([i \in 1..Len(out_writers) |->
                    IF NameIn(OutNames[i], names)
                    THEN Len(out_writers[i].files[1]) ELSE 0])

\* C6: when the run is Done, the manifest's available.train is the number of
\* records written to the training destinations, available.test the number
\* written to the validation destinations, and available.total their sum.
C6_ManifestCountsAreExact ==
    pc = "Done" =>
        /\ manifest.files.available.train = RecordsWritten(manifest.files.train)
        /\ manifest.files.available.test = RecordsWritten(manifest.files.test)
        /\ manifest.files.available.total =
              RecordsWritten(manifest.files.train) + RecordsWritten(manifest.files.test)

C6_Witness ==
    /\ pc = "Done"
    /\ mode = "subject-dependent"
    /\ num_subjects = 2
    /\ manifest.files.available.test = 1
    /\ manifest.files.available.train = 3
    /\ Len(train_writer.files[1]) = 3

\* C7: transform_labels bins channel c with the breakpoints built from
\* channel c's own class count.
C7_ChannelsBinnedIndependently ==
    transformed.kind = "return"
        => \A c \in 1..4 :
              transformed.value[c] =
                 transform_label_channel_with_classes(
                     labels_in[c], build_classes(num_classes[c])).value

\* C8: classifying a value outside [1.0, 9.0] ends in an OutOfRangeLabel
\* error; it never returns a value.
C8_OutOfRangeRaises ==
    (cls_outcome.kind # "pending" /\ cls_outcome.kind # "idle" /\ ~InRange(cls_value))
        => cls_outcome.kind = "OutOfRangeLabel"

\* The integer nearest to the rational r >= 0, a half going to the even side
NearestInteger(r) ==
    CHOOSE k \in 0..(r[1] \div r[2] + 1) :
        LET twice_off == IF k * r[2] >= r[1] THEN 2 * (k * r[2] - r[1])
                         ELSE 2 * (r[1] - k * r[2])
        IN  /\ twice_off <= r[2]
            /\ twice_off = r[2] => k % 2 = 0

\* The source files that come first in name order, as many as the split asks for
ValidationFiles ==
    LET names == {listing[i] : i \in 1..Len(listing)}
        k == NearestInteger(<<validation_split[1] * Len(listing), validation_split[2]>>)
    IN  {f \in names : Cardinality({g \in names : g < f}) < k}

\* The source files with a record in the output file at out_names[i]
SourcesOf(i) == {rec.X.file : rec \in FileRecords(out_writers[i])}

\* C11: in a subject-independent run the test names and the train names
\* are disjoint and cover out_names; the records of one source file lie in
\* one output file only; that file is a test name when the source file is
\* among the first round(validation_split * file_count) in name order and
\* a train name otherwise; and the manifest lists these names.
C11_FileBasedSplit ==
    (mode = "subject-independent" /\ pc # "Init") =>
        LET test  == {test_names[i] : i \in 1..Len(test_names)}
            train == {train_names[i] : i \in 1..Len(train_names)}
        IN  /\ test \cap train = {}
            /\ test \cup train = {OutNames[i] : i \in 1..Len(OutNames)}
            /\ Len(test_names) = Cardinality(ValidationFiles)
            /\ \A i \in 1..Len(out_writers) : \A f \in SourcesOf(i) :
                  /\ \A j \in 1..Len(out_writers) : f \in SourcesOf(j) => j = i
                  /\ f \in ValidationFiles => OutNames[i] \in test
                  /\ f \notin ValidationFiles => OutNames[i] \in train
            /\ pc = "Done" => /\ manifest.files.test = test_names
                              /\ manifest.files.train = train_names

\* Two files listed in reverse name order, split in half: one record-holding
\* output on each side.
C11_Witness ==
    /\ pc = "Done"
    /\ mode = "subject-independent"
    /\ listing = <<2, 1>>
    /\ manifest.files.test = <<1>>
    /\ manifest.files.train = <<2>>
    /\ SourcesOf(1) = {1}
    /\ SourcesOf(2) = {2}

\* The DEAPWriters process_directory has entered so far
EnteredWriters ==
    IF mode = "subject-dependent"
    THEN (IF pc = "Init" THEN {} ELSE {train_writer, test_writer})
    ELSE {out_writers[i] : i \in 1..Len(out_writers)}

\* The entered writers whose with block has been left: both writers of a
\* subject-dependent run once the outer with is left, and every per-file
\* writer of a subject-independent run.
LeftWriters ==
    IF mode = "subject-dependent"
    THEN (IF pc \in {"WritingManifest", "Done", "Failed"} THEN EnteredWriters ELSE {})
    ELSE EnteredWriters

ClosedTimes(w, n) == \A d \in 1..Len(w.writers) : w.closed[d] = n

\* C12: a writer whose with block was left, with or without an exception,
\* has had every file closed exactly once; no file is closed more than once
\* or written to after its close; and the manifest exists only when every
\* entered writer has all its files closed.
C12_ClosedOnEveryPath ==
    /\ \A w \in LeftWriters : ClosedTimes(w, 1)
    /\ \A w \in EnteredWriters :
          /\ ClosedTimes(w, 0) \/ ClosedTimes(w, 1)
          /\ w.late_writes = 0
    /\ manifest # Unset => \A w \in EnteredWriters : ClosedTimes(w, 1)

\* A subject-dependent run that failed while train_writer_buffer was
\* drained: the train file took one record and raised on the second, and
\* both files are closed.
C12_Witness ==
    /\ pc = "Failed"
    /\ mode = "subject-dependent"
    /\ exc = "OpError"
    /\ train_writer.error = "OpError"
    /\ Len(train_writer.files[1]) = 1
    /\ train_writer_buffer.collected >= 2
    /\ ClosedTimes(train_writer, 1)
    /\ ClosedTimes(test_writer, 1)

====
